---- MODULE Spec2Model ----
(***************************************************************************)
(* absmap.py: a single-axis gesture detector.  VelocityTracker keeps a     *)
(* bounded history of (timestamp, value) samples, estimates velocity and   *)
(* acceleration from it and classifies the motion as 'up', 'down' or None. *)
(* main() feeds every axis event to the tracker and dispatches the action  *)
(* bound to a detected gesture unless the cooldown suppresses it.          *)
(*                                                                         *)
(* Numbers.  Values are integers; timestamps are integers in an abstract   *)
(* unit and arrive in non-decreasing order; the wall clock (time.time() *  *)
(* 1000) is an integer number of milliseconds that never runs backwards.   *)
(* Velocities and accelerations are exact rationals <<num, den>> with      *)
(* den > 0; the multipliers 1.5, 0.7 and 1.0 are kept in tenths.           *)
(*                                                                         *)
(* The specifications share the variables:                                 *)
(*   SpecTracker  the VelocityTracker object driven by arbitrary calls of  *)
(*                add_sample, clear and detect_gesture;                    *)
(*   Spec         the dispatch loop of main() on an arbitrary event stream;*)
(*   SpecRise     the dispatch loop fed with monotonic rises only, each    *)
(*                starting with a 0-valued sample;                         *)
(*   SpecFields   SpecTracker with tracker.velocity and                    *)
(*                tracker.acceleration recorded;                           *)
(*   SpecCleanup  the dispatch loop with the grab setting free.            *)
(* detect_gesture writes tracker.velocity and tracker.acceleration and     *)
(* nothing in the program reads them, so the other specifications leave    *)
(* them out (fields_observed = FALSE).                                     *)
(***************************************************************************)
EXTENDS Integers, Sequences, FiniteSets, TLC

\* ---- bounds of the tracker specification
MaxTs == 2
MaxValue == 4
MaxHistory == 3
MaxThreshold == 2
\* ---- bounds of the dispatch-loop specifications
LoopMaxTs == 2
LoopMaxValue == 2
LoopMaxHistory == 2
MaxCooldown == 2
MaxNow == 4
MaxTick == 1
\* ---- bounds of the rises fed to SpecRise
RiseMaxTs == 4
RiseMaxValue == 4

VARIABLES
    velocity_threshold,     \* tracker.velocity_threshold (settings.velocity_threshold)
    acceleration_enabled,   \* tracker.acceleration_enabled (settings.acceleration)
    max_history,            \* tracker.max_history (settings.history_size)
    cooldown_ms,            \* settings.cooldown
    gestures,               \* the directions that have an entry in config['gestures']
    grab,                   \* settings.grab
    fields_observed,        \* the model records tracker.velocity and tracker.acceleration
    history,                \* tracker.history, a sequence of <<timestamp, value>>
    last_gesture_time,      \* main's last_gesture_time
    timestamp,              \* timestamp of the most recent axis event
    value,                  \* value of the most recent axis event
    gesture,                \* what detect_gesture returned in the latest call or loop
                            \* iteration ("None" too when the iteration skipped the event)
    now,                    \* the wall clock in ms
    action_result,          \* what the latest step did with execute_action: "none" (not
                            \* called), "ok" (returned after acting), "error" (met a failure)
    pc,                     \* "loop" while main is in read_loop, "exited" afterwards
    velocity,               \* tracker.velocity, <<0, 0>> while the attribute is not set
    acceleration,           \* tracker.acceleration, <<0, 0>> while the attribute is not set
    grabbed,                \* the device is grabbed by this process
    uinput_open,            \* the UInput handle is open
    exit_code,              \* the process's exit status, -1 while it runs
    rise_start,             \* clock at the 0-valued sample that opened the current rise (-1: none)
    rise_open,              \* the cooldown had elapsed at that sample
    rise_n,                 \* non-zero samples of the current rise so far
    rise_trigger,           \* the first two samples of the rise reach the threshold
    rise_dispatches,        \* dispatches since the rise began
    total_dispatches        \* dispatches since start-up (SpecRise only)

config == <<velocity_threshold, acceleration_enabled, max_history, cooldown_ms, gestures,
            grab, fields_observed>>
attrs == <<velocity, acceleration>>
resources == <<grabbed, uinput_open, exit_code>>
rise == <<rise_start, rise_open, rise_n, rise_trigger, rise_dispatches, total_dispatches>>
loopvars == <<last_gesture_time, now, action_result, pc>>
vars == <<config, history, timestamp, value, gesture, loopvars, rise, attrs, resources>>

Directions == {"up", "down"}

\* ---- exact rationals <<num, den>>, den > 0
Abs(n) == IF n < 0 THEN -n ELSE n
Zero == <<0, 1>>
RatLess(a, b) == a[1] * b[2] < b[1] * a[2]
RatAbs(a) == <<Abs(a[1]), a[2]>>

\* ---- VelocityTracker

clear(h) == <<>>

add_sample_no_trim(h, t, v, cap) ==
    IF v = 0 THEN clear(h) ELSE Append(h, <<t, v>>)

add_sample_keep_zero(h, t, v, cap) ==
    LET h1 == Append(h, <<t, v>>)
    IN  IF Len(h1) > cap THEN Tail(h1) ELSE h1

add_sample_drop_newest(h, t, v, cap) ==
    IF v = 0
    THEN clear(h)
    ELSE LET h1 == Append(h, <<t, v>>)
         IN  IF Len(h1) > cap THEN SubSeq(h1, 1, cap) ELSE h1

add_sample(h, t, v, cap) ==
    IF v = 0
    THEN clear(h)
    ELSE LET h1 == Append(h, <<t, v>>)
         IN  IF Len(h1) > cap THEN Tail(h1) ELSE h1

get_velocity_last_pair(h) ==
    IF Len(h) < 2
    THEN Zero
    ELSE LET dt == h[Len(h)][1] - h[Len(h) - 1][1]
             dv == h[Len(h)][2] - h[Len(h) - 1][2]
         IN  IF dt = 0 THEN Zero ELSE <<dv, dt>>

get_velocity(h) ==
    IF Len(h) < 2
    THEN Zero
    ELSE LET dt == h[Len(h)][1] - h[1][1]
             dv == h[Len(h)][2] - h[1][2]
         IN  IF dt = 0 THEN Zero ELSE <<dv, dt>>

get_acceleration(h, enabled) ==
    IF ~enabled \/ Len(h) < 3
    THEN Zero
    ELSE LET mid == h[(Len(h) \div 2) + 1]
             dt1 == mid[1] - h[1][1]
             dt2 == h[Len(h)][1] - mid[1]
             dv1 == mid[2] - h[1][2]
             dv2 == h[Len(h)][2] - mid[2]
         IN  IF dt1 = 0 \/ dt2 = 0
             THEN Zero
             ELSE <<2 * (dv2 * dt1 - dv1 * dt2), dt1 * dt2 * (dt1 + dt2)>>

multiplier_no_brake_going_down(v, a, enabled) ==
    IF ~enabled THEN 10
    ELSE IF v[1] > 0 /\ a[1] < 0 THEN 15
    ELSE IF v[1] > 0 /\ a[1] > 0 THEN 7
    ELSE IF v[1] < 0 /\ a[1] < 0 THEN 7
    ELSE 10

\* the multiplier of detect_gesture in tenths
multiplier(v, a, enabled) ==
    IF ~enabled THEN 10
    ELSE IF v[1] > 0 /\ a[1] < 0 THEN 15
    ELSE IF v[1] < 0 /\ a[1] > 0 THEN 15
    ELSE IF v[1] > 0 /\ a[1] > 0 THEN 7
    ELSE IF v[1] < 0 /\ a[1] < 0 THEN 7
    ELSE 10

detect_gesture_scaled_only(h, thr, enabled) ==
    IF Len(h) < 2
    THEN "None"
    ELSE LET v == get_velocity(h)
             m == multiplier(v, get_acceleration(h, enabled), enabled)
         IN  IF RatLess(RatAbs(v), <<thr * m, 10>>) THEN "None"
             ELSE IF v[1] > 0 THEN "up" ELSE "down"

detect_gesture_flipped(h, thr, enabled) ==
    IF Len(h) < 2
    THEN "None"
    ELSE LET v == get_velocity(h)
             abs_velocity == RatAbs(v)
         IN  IF RatLess(abs_velocity, <<thr, 1>>)
             THEN "None"
             ELSE LET m == multiplier(v, get_acceleration(h, enabled), enabled)
                  IN  IF RatLess(abs_velocity, <<thr * m, 10>>) THEN "None"
                      ELSE IF v[1] < 0 THEN "up" ELSE "down"

detect_gesture_adaptive_first(h, thr, enabled) ==
    IF Len(h) < 2
    THEN "None"
    ELSE LET v == get_velocity(h)
             m == multiplier(v, get_acceleration(h, enabled), enabled)
             threshold == IF enabled THEN <<thr * m, 10>> ELSE <<thr, 1>>
         IN  IF RatLess(RatAbs(v), threshold) THEN "None"
             ELSE IF v[1] > 0 THEN "up" ELSE "down"

detect_gesture(h, thr, enabled) ==
    IF Len(h) < 2
    THEN "None"
    ELSE LET v == get_velocity(h)
             abs_velocity == RatAbs(v)
         IN  IF RatLess(abs_velocity, <<thr, 1>>)
             THEN "None"
             ELSE LET m == multiplier(v, get_acceleration(h, enabled), enabled)
                      threshold == <<thr * m, 10>>
                  IN  IF RatLess(abs_velocity, threshold) THEN "None"
                      ELSE IF v[1] > 0 THEN "up" ELSE "down"

\* lines 237-241: tracker.velocity after detect_gesture, old being its value before
velocity_after(h, old) ==
    IF Len(h) < 2 THEN old ELSE get_velocity(h)

\* lines 237-265: tracker.acceleration after detect_gesture
acceleration_after(h, thr, enabled, old) ==
    IF Len(h) < 2 THEN old
    ELSE IF RatLess(RatAbs(get_velocity(h)), <<thr, 1>>) THEN Zero
    ELSE IF enabled THEN get_acceleration(h, enabled)
    ELSE Zero

\* ---- main(): the per-event decision of the dispatch loop

\* line 368: the gesture is dropped while the cooldown runs
cooldown_active_inclusive(cur, last, cd) == cur - last <= cd

cooldown_active_until_first_stamp(cur, last, cd) == last = 0 \/ cur - last < cd

cooldown_active(cur, last, cd) == cur - last < cd

\* lines 372-377: the gesture has an entry in config['gestures']; validate_config
\* has made sure that entry holds a non-empty action
gesture_bound(g, gs) == g \in gs

\* lines 365-382: execute_action is called in this iteration
dispatched(g, cur, last, cd, gs) ==
    /\ g # "None"
    /\ ~cooldown_active(cur, last, cd)
    /\ gesture_bound(g, gs)

\* line 375: last_gesture_time after the iteration
last_gesture_time_on_any_gesture(g, cur, last, cd, gs) ==
    IF g # "None" /\ ~cooldown_active(cur, last, cd) THEN cur ELSE last

last_gesture_time_stale(g, cur, last, cd, gs) == last

last_gesture_time_after(g, cur, last, cd, gs) ==
    IF dispatched(g, cur, last, cd, gs) THEN cur ELSE last

\* line 382: tracker.history after the iteration, h1 being the buffer after add_sample
history_cleared_on_cooldown(h1, g, cur, last, cd, gs) ==
    IF g # "None" /\ (cooldown_active(cur, last, cd) \/ gesture_bound(g, gs))
    THEN clear(h1) ELSE h1

history_cleared_on_unbound(h1, g, cur, last, cd, gs) ==
    IF g # "None" /\ ~cooldown_active(cur, last, cd) THEN clear(h1) ELSE h1

history_kept_on_dispatch(h1, g, cur, last, cd, gs) == h1

history_after(h1, g, cur, last, cd, gs) ==
    IF dispatched(g, cur, last, cd, gs) THEN clear(h1) ELSE h1

\* lines 144-171: execute_action prints every failure of emit_keys or of the
\* command and returns normally, so the loop goes on
execute_action_raises(res) == IF res = "error" THEN "exited" ELSE "loop"

execute_action(res) == "loop"

\* lines 384-398: the ways out of the loop and what the finally clause does
ExitKinds == {"interrupt", "error", "eof"}

\* lines 384-390: sys.exit(1) after an unexpected exception, a plain return otherwise
exit_status(kind) == IF kind = "error" THEN 1 ELSE 0

finally_skipped_by_sys_exit(kind) == kind # "error"

\* lines 392-398: the finally clause runs however the try block ended
finally_runs(kind) == TRUE

\* lines 393-397: device.ungrab() when grab is set; a failure is swallowed
ungrab(g, held) == IF g THEN FALSE ELSE held

\* line 398: uinput.close()
uinput_close(open) == FALSE

\* ---- initial states

TrackerFields ==
    /\ history = <<>>
    /\ timestamp = 0
    /\ value = 0
    /\ gesture = "None"

LoopFields ==
    /\ last_gesture_time = 0
    /\ now = 0
    /\ action_result = "none"
    /\ pc = "loop"
    /\ grabbed = grab
    /\ uinput_open = TRUE
    /\ exit_code = -1

\* VelocityTracker.__init__ (lines 177-181) sets neither velocity nor acceleration
AttrFields ==
    /\ velocity = <<0, 0>>
    /\ acceleration = <<0, 0>>

RiseFields ==
    /\ rise_start = -1
    /\ rise_open = FALSE
    /\ rise_n = 0
    /\ rise_trigger = FALSE
    /\ rise_dispatches = 0
    /\ total_dispatches = 0

\* VelocityTracker.__init__ (lines 177-181); the tracker is used on its own
TrackerSettings ==
    /\ velocity_threshold \in 1..MaxThreshold
    /\ acceleration_enabled \in BOOLEAN
    /\ max_history \in 1..MaxHistory
    /\ cooldown_ms = 1
    /\ gestures = {}
    /\ grab = TRUE
    /\ TrackerFields /\ LoopFields /\ RiseFields /\ AttrFields

TrackerInit == TrackerSettings /\ fields_observed = FALSE

FieldsInit == TrackerSettings /\ fields_observed = TRUE

\* main() up to the loop (lines 316-350)
Init ==
    /\ velocity_threshold = 1
    /\ acceleration_enabled \in BOOLEAN
    /\ max_history \in 1..LoopMaxHistory
    /\ cooldown_ms \in 1..MaxCooldown
    /\ gestures \in SUBSET Directions
    /\ grab = TRUE
    /\ fields_observed = FALSE
    /\ TrackerFields /\ LoopFields /\ RiseFields /\ AttrFields

\* the same with settings.grab free and the other settings at one value each
CleanupInit ==
    /\ velocity_threshold = 1
    /\ acceleration_enabled = FALSE
    /\ max_history = LoopMaxHistory
    /\ cooldown_ms = 1
    /\ gestures \in SUBSET Directions
    /\ grab \in BOOLEAN
    /\ fields_observed = FALSE
    /\ TrackerFields /\ LoopFields /\ RiseFields /\ AttrFields

\* ---- SpecTracker: calls on the tracker object

AddSample ==
    \E t \in timestamp..MaxTs, v \in 0..MaxValue :
        /\ history' = add_sample(history, t, v, max_history)
        /\ timestamp' = t
        /\ value' = v
        /\ UNCHANGED <<config, gesture, loopvars, rise, attrs, resources>>

Clear ==
    /\ history' = clear(history)
    /\ UNCHANGED <<config, timestamp, value, gesture, loopvars, rise, attrs, resources>>

\* what detect_gesture called on buffer h leaves in the two attributes
StoreFields(h) ==
    IF fields_observed
    THEN /\ velocity' = velocity_after(h, velocity)
         /\ acceleration' = acceleration_after(h, velocity_threshold,
                                               acceleration_enabled, acceleration)
    ELSE UNCHANGED attrs

DetectGesture ==
    /\ gesture' = detect_gesture(history, velocity_threshold, acceleration_enabled)
    /\ StoreFields(history)
    /\ UNCHANGED <<config, history, timestamp, value, loopvars, rise, resources>>

TrackerNext == AddSample \/ Clear \/ DetectGesture

SpecTracker == TrackerInit /\ [][TrackerNext]_vars

SpecFields == FieldsInit /\ [][TrackerNext]_vars

\* ---- Spec: the dispatch loop (lines 352-398)

Ticks == 0..MaxTick

\* one iteration on an event of the configured axis (lines 355-382); d is the
\* time that passed since the previous event
AxisEvent(t, v, d) ==
    \E h1 \in {add_sample(history, t, v, max_history)},
       current_time \in {now + d} :
    \E g \in {detect_gesture(h1, velocity_threshold, acceleration_enabled)} :
    \E called \in {dispatched(g, current_time, last_gesture_time, cooldown_ms, gestures)} :
        /\ pc = "loop"
        /\ now' = current_time
        /\ timestamp' = t
        /\ value' = v
        /\ gesture' = g
        /\ StoreFields(h1)
        /\ history' = history_after(h1, g, current_time, last_gesture_time,
                                    cooldown_ms, gestures)
        /\ last_gesture_time' = last_gesture_time_after(g, current_time,
                                    last_gesture_time, cooldown_ms, gestures)
        /\ \E res \in IF called THEN {"ok", "error"} ELSE {"none"} :
              /\ action_result' = res
              /\ pc' = IF called THEN execute_action(res) ELSE "loop"
        /\ UNCHANGED <<config, resources>>

LoopAxisEvent ==
    \E t \in timestamp..LoopMaxTs, v \in 0..LoopMaxValue, d \in Ticks :
        /\ now + d <= MaxNow
        /\ AxisEvent(t, v, d)
        /\ UNCHANGED rise

\* line 355: an event of another type or axis is skipped
OtherEvent ==
    \E d \in Ticks :
        /\ pc = "loop"
        /\ now + d <= MaxNow
        /\ now' = now + d
        /\ gesture' = "None"
        /\ action_result' = "none"
        /\ UNCHANGED <<config, history, timestamp, value, last_gesture_time, pc, rise,
                       attrs, resources>>

\* lines 384-398: KeyboardInterrupt, an exception of read_loop or the end of
\* the event stream ends the loop; the finally clause releases the resources
LoopExit ==
    \E kind \in ExitKinds :
        /\ pc = "loop"
        /\ pc' = "exited"
        /\ exit_code' = exit_status(kind)
        /\ grabbed' = IF finally_runs(kind) THEN ungrab(grab, grabbed) ELSE grabbed
        /\ uinput_open' = IF finally_runs(kind) THEN uinput_close(uinput_open)
                          ELSE uinput_open
        /\ gesture' = "None"
        /\ action_result' = "none"
        /\ UNCHANGED <<config, history, timestamp, value, last_gesture_time, now, rise,
                       attrs>>

Next == LoopAxisEvent \/ OtherEvent \/ LoopExit

Spec == Init /\ [][Next]_vars

SpecCleanup == CleanupInit /\ [][Next]_vars

\* ---- SpecRise: the loop fed with monotonic rises

\* the next event of a rise: a 0-valued sample opens a new rise, any other sample
\* is larger and later than the one before it
RiseAxisEvent ==
    \E t \in timestamp..RiseMaxTs, v \in 0..RiseMaxValue, d \in Ticks :
        /\ now + d <= MaxNow
        /\ \/ v = 0
           \/ /\ rise_start # -1
              /\ v > value
              /\ rise_n > 0 => t > timestamp
        /\ AxisEvent(t, v, d)
        /\ IF v = 0
           THEN /\ rise_start' = now'
                /\ rise_open' = (now' - last_gesture_time >= cooldown_ms)
                /\ rise_n' = 0
                /\ rise_trigger' = FALSE
                /\ rise_dispatches' = 0
                /\ UNCHANGED total_dispatches
           ELSE /\ rise_n' = rise_n + 1
                /\ rise_trigger' = IF rise_n = 1
                                   THEN v - value >= velocity_threshold * (t - timestamp)
                                   ELSE rise_trigger
                /\ rise_dispatches' = rise_dispatches
                                      + IF action_result' # "none" THEN 1 ELSE 0
                /\ total_dispatches' = total_dispatches
                                      + IF action_result' # "none" THEN 1 ELSE 0
                /\ UNCHANGED <<rise_start, rise_open>>

RiseNext == RiseAxisEvent \/ OtherEvent

SpecRise == Init /\ [][RiseNext]_vars

\* ---- properties

Velocity == get_velocity(history)
Acceleration == get_acceleration(history, acceleration_enabled)
Detected == detect_gesture(history, velocity_threshold, acceleration_enabled)
BelowBase == RatLess(RatAbs(Velocity), <<velocity_threshold, 1>>)
\* |velocity| >= 0.7 * velocity_threshold
ReachesLowered == ~RatLess(RatAbs(Velocity), <<7 * velocity_threshold, 10>>)

\* C1 (SpecTracker): whatever add_sample and clear calls were made, the tracker
\* never stores more than max_history samples.
C1_LengthBounded == Len(history) <= max_history

\* a full buffer of at least two samples, the last add having been a real sample
C1_Witness ==
    /\ max_history >= 2
    /\ Len(history) = max_history
    /\ value # 0
    /\ history[1][1] > 0

\* C2 (SpecTracker): no stored sample has value 0, and once add_sample was
\* called with value 0 the buffer is empty until the next non-zero sample.
C2_NoZeroStored ==
    /\ \A i \in 1..Len(history) : history[i][2] # 0
    /\ value = 0 => history = <<>>

\* a 0-valued sample emptied a buffer that had held a detected gesture
C2_Witness ==
    /\ value = 0
    /\ timestamp > 0
    /\ gesture # "None"
    /\ history = <<>>

\* C3 (Spec): an iteration that detects a gesture with a bound action calls
\* execute_action exactly when current_time - last_gesture_time >= cooldown_ms,
\* and a dispatch stamps last_gesture_time with current_time, so two
\* consecutive dispatches are at least cooldown_ms apart.
C3_CooldownGate ==
    [][(gesture' # "None" /\ gesture' \in gestures)
         => /\ action_result' # "none" <=> now' - last_gesture_time >= cooldown_ms
            /\ action_result' # "none" => last_gesture_time' = now']_vars

\* a bound gesture suppressed after an earlier dispatch
C3_Witness ==
    /\ last_gesture_time > 0
    /\ gesture \in gestures
    /\ action_result = "none"
    /\ now - last_gesture_time < cooldown_ms
    /\ now > last_gesture_time

\* C4 (SpecTracker): detect_gesture returns None on every buffer whose
\* |velocity| is below velocity_threshold, whatever the acceleration setting
\* and the multiplier.
C4_NeverBelowBase == BelowBase => Detected = "None"

\* the 0.7 multiplier applies and the velocity lies between 0.7 * threshold and threshold
C4_Witness ==
    /\ acceleration_enabled
    /\ Len(history) >= 3
    /\ multiplier(Velocity, Acceleration, acceleration_enabled) = 7
    /\ BelowBase
    /\ ReachesLowered
    /\ gesture = "None"

\* C5 (SpecTracker), as claimed: with acceleration enabled, positive velocity
\* and positive acceleration, a velocity of at least 0.7 * velocity_threshold
\* is classified 'up'.
C5_LoweredBarFires ==
    (/\ acceleration_enabled
     /\ Velocity[1] > 0
     /\ Acceleration[1] > 0
     /\ ReachesLowered) => Detected = "up"

\* C6 (Spec): last_gesture_time changes only in a step that calls
\* execute_action.
C6_StampOnlyOnDispatch ==
    [][last_gesture_time' # last_gesture_time => action_result' # "none"]_vars

\* after a dispatch, an unbound gesture passes the cooldown and leaves the stamp alone
C6_Witness ==
    /\ last_gesture_time > 0
    /\ gesture # "None"
    /\ gesture \notin gestures
    /\ now - last_gesture_time >= cooldown_ms

\* C7 (Spec): an iteration whose gesture is suppressed by the cooldown keeps
\* the buffer as add_sample left it, keeps last_gesture_time and calls no
\* action.
C7_SuppressedKeepsWindow ==
    [][(gesture' # "None" /\ now' - last_gesture_time < cooldown_ms)
         => /\ history' = add_sample(history, timestamp', value', max_history)
            /\ last_gesture_time' = last_gesture_time
            /\ action_result' = "none"]_vars

\* a bound gesture is suppressed before the first dispatch and its window is still there
C7_Witness ==
    /\ last_gesture_time = 0
    /\ gesture \in gestures
    /\ now - last_gesture_time < cooldown_ms
    /\ Len(history) >= 2
    /\ Detected = gesture

\* C8 (Spec): a non-empty buffer is emptied by a non-zero sample's iteration
\* only if execute_action was called in it, and a gesture without an entry in
\* gestures calls no action, keeps the buffer and keeps last_gesture_time.
C8_ClearOnlyOnDispatch ==
    [][/\ (history # <<>> /\ history' = <<>> /\ value' # 0) => action_result' # "none"
       /\ (gesture' # "None" /\ gesture' \notin gestures)
            => /\ action_result' = "none"
               /\ history' = add_sample(history, timestamp', value', max_history)
               /\ last_gesture_time' = last_gesture_time]_vars

\* an unbound gesture passed the cooldown before any dispatch and the buffer was kept
C8_Witness ==
    /\ last_gesture_time = 0
    /\ gesture # "None"
    /\ gesture \notin gestures
    /\ now >= cooldown_ms
    /\ Len(history) >= 2

\* the preconditions of C9: 'up' is bound, the rise began with the cooldown
\* elapsed, its first two samples reach the threshold (the buffer can hold
\* them) and the rise has so far lasted less than cooldown_ms on the clock
\* the cooldown is measured with
RiseQualifies ==
    /\ "up" \in gestures
    /\ max_history >= 2
    /\ rise_open
    /\ rise_n >= 2
    /\ rise_trigger
    /\ now - rise_start < cooldown_ms

\* C9 (SpecRise): such a rise has been dispatched exactly once, the dispatch
\* coming with its second sample and leaving the buffer empty; this holds
\* for every rise, so a second rise adds exactly one dispatch.
C9_OneDispatchPerRise ==
    RiseQualifies => /\ rise_dispatches = 1
                     /\ last_gesture_time >= rise_start
                     /\ rise_n = 2 => history = <<>>

\* the second rise was dispatched once and a later pair of its samples is suppressed
C9_Witness ==
    /\ RiseQualifies
    /\ total_dispatches = 2
    /\ rise_n = 4
    /\ gesture = "up"
    /\ action_result = "none"

\* C10 (Spec): a step in which execute_action meets a failure leaves the loop
\* running with last_gesture_time set to current_time and the buffer empty,
\* as a successful action does.
C10_FailureKeepsLoop ==
    [][action_result' \in {"ok", "error"}
         => /\ pc' = "loop"
            /\ last_gesture_time' = now'
            /\ history' = <<>>]_vars

\* a failed action has just been dispatched and the loop is still reading events
C10_Witness ==
    /\ action_result = "error"
    /\ pc = "loop"
    /\ history = <<>>
    /\ last_gesture_time = now

FreshVelocity(h) == get_velocity(h)
FreshAcceleration(h) ==
    IF ~acceleration_enabled \/ RatLess(RatAbs(get_velocity(h)), <<velocity_threshold, 1>>)
    THEN Zero
    ELSE get_acceleration(h, acceleration_enabled)

\* C12 (SpecFields), as claimed: every detect_gesture call (a step that leaves
\* the buffer and the latest sample alone) stores the velocity and the
\* acceleration computed from the current buffer.
C12_FieldsAlwaysFresh ==
    [][UNCHANGED <<history, timestamp, value>>
         => /\ velocity' = FreshVelocity(history)
            /\ acceleration' = FreshAcceleration(history)]_vars

\* C13 (SpecTracker): an add_sample call with a non-zero value (a step that
\* leaves the latest detect_gesture result alone and is not a clear()) makes
\* the buffer the old buffer with the new sample at the end, without its
\* oldest entry, and only that one, when the length would exceed max_history;
\* the newest sample is therefore always the last entry.
C13_AppendEvictOldest ==
    [][(/\ value' # 0
        /\ gesture' = gesture
        /\ ~(history' = <<>> /\ UNCHANGED <<timestamp, value>>))
         => LET appended == history \o <<<<timestamp', value'>>>>
            IN  /\ history' = IF Len(appended) > max_history
                              THEN [i \in 1..(Len(appended) - 1) |-> appended[i + 1]]
                              ELSE appended
                /\ history'[Len(history')] = <<timestamp', value'>>
                /\ Len(history') = IF Len(history) < max_history
                                   THEN Len(history) + 1 ELSE max_history]_vars

\* a full buffer of three different samples that ends with the newest one
C13_Witness ==
    /\ max_history = 3
    /\ Len(history) = 3
    /\ history[1][1] >= 1
    /\ history[3] = <<timestamp, value>>
    /\ history[1][2] # history[2][2]
    /\ history[2][2] # history[3][2]
    /\ history[1][1] < history[3][1]

\* C14 (Spec): a dispatch leaves the buffer empty and last_gesture_time at the
\* dispatch time, and it needs a non-zero sample added to a buffer that
\* already held one; so the step after a dispatch never dispatches, nor does
\* the first sample added to the emptied buffer.
C14_FreshEvidence ==
    [][/\ action_result' # "none"
            => /\ history' = <<>>
               /\ last_gesture_time' = now'
               /\ Len(history) >= 1
               /\ value' # 0
               /\ \A i \in 1..Len(history) : history[i][2] # 0
       /\ action_result # "none" => action_result' = "none"
       /\ history = <<>> => action_result' = "none"]_vars

\* one sample after a dispatch: the cooldown has elapsed and still nothing is detected
C14_Witness ==
    /\ last_gesture_time > 0
    /\ now - last_gesture_time >= cooldown_ms
    /\ history = <<<<timestamp, value>>>>
    /\ gesture = "None"
    /\ action_result = "none"
    /\ pc = "loop"

\* C19 (Spec): while last_gesture_time still has its start value 0, a gesture
\* with a bound action detected at a clock value of at least cooldown_ms is
\* dispatched.
C19_FirstGesturePasses ==
    [][(/\ last_gesture_time = 0
        /\ gesture' # "None"
        /\ gesture' \in gestures
        /\ now' >= cooldown_ms) => action_result' # "none"]_vars

\* the first dispatch, at the earliest clock value the gate lets through
C19_Witness ==
    /\ action_result # "none"
    /\ now = cooldown_ms
    /\ last_gesture_time = cooldown_ms
    /\ gesture \in gestures

\* velocity and acceleration have strictly opposite signs
OppositeSigns ==
    \/ Velocity[1] > 0 /\ Acceleration[1] < 0
    \/ Velocity[1] < 0 /\ Acceleration[1] > 0
\* |velocity| >= 1.5 * velocity_threshold
ReachesRaised == ~RatLess(RatAbs(Velocity), <<15 * velocity_threshold, 10>>)

\* C15 (SpecTracker): on a buffer of at least 2 samples whose |velocity| is at
\* least velocity_threshold, detect_gesture returns a gesture iff |velocity| >=
\* 1.5 * velocity_threshold when acceleration is enabled and velocity and
\* acceleration have opposite signs, and always when the acceleration is 0 or
\* acceleration is disabled (multiplier 1.0); fewer than 3 samples and a
\* zero-duration sub-interval give acceleration 0.
C15_MultiplierCases ==
    /\ (Len(history) >= 2 /\ ~BelowBase)
         => /\ (acceleration_enabled /\ OppositeSigns)
                  => (Detected # "None" <=> ReachesRaised)
            /\ (~acceleration_enabled \/ Acceleration[1] = 0) => Detected # "None"
    /\ ~acceleration_enabled => Acceleration = Zero
    /\ Len(history) < 3 => Acceleration = Zero
    /\ (Len(history) >= 3
        /\ \/ history[(Len(history) \div 2) + 1][1] = history[1][1]
           \/ history[(Len(history) \div 2) + 1][1] = history[Len(history)][1])
         => Acceleration = Zero

\* a downward motion that is slowing: it reaches the threshold but not 1.5 times it
C15_Witness ==
    /\ acceleration_enabled
    /\ Velocity[1] < 0
    /\ Acceleration[1] > 0
    /\ ~BelowBase
    /\ ~ReachesRaised
    /\ Detected = "None"

\* C16 (SpecTracker): a label returned by detect_gesture is 'up' exactly for a
\* positive velocity and 'down' exactly for a negative one, and a velocity of 0
\* (fewer than 2 samples, equal end values or equal end timestamps) gives None.
C16_LabelFollowsSign ==
    /\ Detected = "up" => Velocity[1] > 0
    /\ Detected = "down" => Velocity[1] < 0
    /\ Velocity[1] = 0 => Detected = "None"
    /\ (\/ Len(history) < 2
        \/ history[1][2] = history[Len(history)][2]
        \/ history[1][1] = history[Len(history)][1]) => Velocity[1] = 0

\* a 'down' on a full three-sample buffer
C16_Witness ==
    /\ Len(history) = 3
    /\ Detected = "down"
    /\ history[1][2] > history[3][2]
    /\ gesture = "down"

\* the samples an intermediate entry of the buffer could be replaced with
Samples == (0..MaxTs) \X (1..MaxValue)

\* C17 (SpecTracker): get_velocity is (value_last - value_first) / (t_last -
\* t_first), stays the same whatever replaces an intermediate sample, and is
\* 0.0 below 2 samples and for equal first and last timestamps.
C17_VelocityFromEndpoints ==
    LET n == Len(history)
    IN  /\ (n >= 2 /\ history[n][1] # history[1][1])
             => Velocity[1] * (history[n][1] - history[1][1])
                  = (history[n][2] - history[1][2]) * Velocity[2]
        /\ (n < 2 \/ history[n][1] = history[1][1]) => Velocity = Zero
        /\ \A i \in 2..(n - 1) : \A s \in Samples :
               get_velocity([history EXCEPT ![i] = s]) = Velocity

\* three samples, the middle one off the line through the ends
C17_Witness ==
    /\ Len(history) = 3
    /\ Velocity[1] # 0
    /\ (history[2][2] - history[1][2]) * (history[3][1] - history[2][1])
         # (history[3][2] - history[2][2]) * (history[2][1] - history[1][1])

\* detect_gesture on the current buffer with acceleration enabled and disabled
DetectedWith == detect_gesture(history, velocity_threshold, TRUE)
DetectedWithout == detect_gesture(history, velocity_threshold, FALSE)

\* C18 (SpecTracker): on every buffer, a gesture returned with acceleration
\* enabled is the gesture returned with acceleration disabled, and where the
\* 0.7 multiplier applies both settings return the same.
C18_AccelerationOnlyRemoves ==
    /\ DetectedWith # "None" => DetectedWith = DetectedWithout
    /\ multiplier(Velocity, get_acceleration(history, TRUE), TRUE) = 7
         => DetectedWith = DetectedWithout

\* the 1.5 multiplier turns a gesture into None
C18_Witness ==
    /\ DetectedWith = "None"
    /\ DetectedWithout # "None"
    /\ multiplier(Velocity, get_acceleration(history, TRUE), TRUE) = 15

====
